---- MODULE Spec2Model ----
(***************************************************************************)
(* The alert engine of pkg/services/alerting/engine.go: the tick loop with *)
(* its cluster lease, the job dispatcher, the per-job retry supervisor     *)
(* (processJobWithRetry / endJob) and the attempt task (processJob).       *)
(* Channels are modelled as a buffer plus a closed flag; a goroutine's     *)
(* position is a pc variable; a Go select with several ready cases is a    *)
(* choice between the enabled actions; timers fire at any moment.          *)
(***************************************************************************)
EXTENDS Naturals, Sequences, FiniteSets, TLC

\* ---------------------------------------------------------------- bounds
\* setting.AlertingMaxAttempts is drawn from 1..MaxAttemptsBound
MaxAttemptsBound == 2
\* capacity of execQueue (1000 in Init, scaled down)
QueueCap == 1
\* ticks one tick loop receives in the engine specification
EngineTicks == 1
\* ticks each of the two tick loops receives in the lease specification
LeaseTicks == 2
\* ticks the tick loop receives in the refresh specification
RefreshTicks == 11
\* ticks each of the two tick loops receives in the steady-cache specification
SteadyTicks == 4

\* ----------------------------------------------------- program constants
\* tickIndex%10 == 0
RefreshEvery == 10
\* setting.AlertingClusteringTimeout, the lease TTL in seconds
AlertingClusteringTimeout == 30

Inst == {"A", "B"}
Rules == {"r1", "r2"}
Jobs == Inst \X Rules
JobsOf(i) == {j \in Jobs : j[1] = i}

\* a nil cache record
Nil == [Instance |-> "", ttl |-> 0]
ClusterAlertingInstance(i) == [Instance |-> i, ttl |-> AlertingClusteringTimeout]

\* the attemptID values of processJob, one past the largest maximum included
AttemptIDs == 1..(MaxAttemptsBound + 1)

\* the cancellation functions a job can create: one per evaluation attempt,
\* one for result handling
CancelFns == {"eval", "result"} \X AttemptIDs

NewChan == [buf |-> <<>>, closed |-> FALSE]
NoCtx == [Error |-> FALSE]

VARIABLES
    \* configuration
    AlertingMaxAttempts, AlertingClusteringEnabled,
    \* the context passed to Run, per instance
    ctxDone,
    \* tick loop
    tpc, tret, tickIndex, cache_record, pending, schedRules,
    \* shared rule catalog and remote cache
    catalog, cache,
    \* execution queue and dispatcher
    execQueue, dpc, dret,
    \* supervisor (processJobWithRetry)
    spc, sret, running, attemptChan, cancelChan,
    \* attempt task (processJob and its nested goroutine)
    apc, evalContext, ruleState,
    \* history
    attempts, handled, created, registered, calls, endKind, evalAtShutdown,
    lastTick, refreshed, snapshot

cfgVars == <<AlertingMaxAttempts, AlertingClusteringEnabled>>
tickVars == <<tpc, tret, tickIndex, cache_record, pending, schedRules>>
tickHist == <<lastTick, refreshed, snapshot>>
envVars == <<catalog, cache>>
dispVars == <<dpc, dret>>
supVars == <<sret, running, cancelChan, calls, endKind>>
taskVars == <<apc, evalContext, ruleState, attempts, handled,
              created, registered>>
vars == <<cfgVars, ctxDone, tickVars, tickHist, envVars, execQueue, dispVars,
          spc, attemptChan, supVars, taskVars, evalAtShutdown>>

\* ------------------------------------------------------------- contexts
\* the errgroup context of Run: done when the parent is done, when one of
\* the two loops returned an error, or when Wait has returned
GroupCtxDone(i) ==
    \/ ctxDone[i]
    \/ tret[i] = "ctxErr"
    \/ dret[i] = "ctxErr"
    \/ (tpc[i] = "returned" /\ dpc[i] = "returned")

\* the errgroup context of the dispatcher, shared by all its supervisors
AlertCtxDone(i) ==
    \/ GroupCtxDone(i)
    \/ \E j \in JobsOf(i) : sret[j] = "ctxErr"
    \/ dpc[i] = "returned"

RunReturned(i) == tpc[i] = "returned" /\ dpc[i] = "returned"
RunErr(i) == IF tret[i] = "ctxErr" \/ dret[i] = "ctxErr" THEN "ctxErr" ELSE "nil"

\* ------------------------------------------------------------- channels
Readable(ch) == ch.buf # <<>> \/ ch.closed
CanSend(ch, cap) == ch.closed \/ Len(ch.buf) < cap
Close(ch) == [ch EXCEPT !.closed = TRUE]

RECURSIVE Invoke(_, _)
\* for cancelFn := range cancelChan { cancelFn() }
Invoke(count, fns) ==
    IF fns = <<>> THEN count
    ELSE Invoke([count EXCEPT ![Head(fns)] = @ + 1], Tail(fns))

\* the state a finished evaluation maps to
GetNewState(c) == IF c.Error THEN "error" ELSE "ok"

\* ------------------------------------------------------------ supervisor
\* a cancel channel with room for one function per attempt only
CancelCapPerAttempt == AlertingMaxAttempts

\* make(chan context.CancelFunc, setting.AlertingMaxAttempts*2)
CancelCap == 2 * AlertingMaxAttempts

\* endJob that closes the cancel channel without draining it
endJobNoDrain(err, j, kind) ==
    /\ running' = [running EXCEPT ![j] = FALSE]
    /\ cancelChan' = [cancelChan EXCEPT ![j] = [buf |-> <<>>, closed |-> TRUE]]
    /\ calls' = calls
    /\ sret' = [sret EXCEPT ![j] = err]
    /\ endKind' = [endKind EXCEPT ![j] = kind]
    /\ spc' = [spc EXCEPT ![j] = "done"]

\* endJob that leaves the job marked running
endJobKeepsRunning(err, j, kind) ==
    /\ running' = running
    /\ cancelChan' = [cancelChan EXCEPT ![j] = [buf |-> <<>>, closed |-> TRUE]]
    /\ calls' = [calls EXCEPT ![j] = Invoke(@, cancelChan[j].buf)]
    /\ sret' = [sret EXCEPT ![j] = err]
    /\ endKind' = [endKind EXCEPT ![j] = kind]
    /\ spc' = [spc EXCEPT ![j] = "done"]

\* job.SetRunning(false), close(cancelChan), invoke what it holds, return err
endJob(err, j, kind) ==
    /\ running' = [running EXCEPT ![j] = FALSE]
    /\ cancelChan' = [cancelChan EXCEPT ![j] = [buf |-> <<>>, closed |-> TRUE]]
    /\ calls' = [calls EXCEPT ![j] = Invoke(@, cancelChan[j].buf)]
    /\ sret' = [sret EXCEPT ![j] = err]
    /\ endKind' = [endKind EXCEPT ![j] = kind]
    /\ spc' = [spc EXCEPT ![j] = "done"]

\* make the channels, attemptChan <- 1, job.SetRunning(true)
SupervisorStart(j) ==
    /\ spc[j] = "spawned"
    /\ spc' = [spc EXCEPT ![j] = "select"]
    /\ attemptChan' = [attemptChan EXCEPT ![j] = [buf |-> <<1>>, closed |-> FALSE]]
    /\ cancelChan' = [cancelChan EXCEPT ![j] = NewChan]
    /\ running' = [running EXCEPT ![j] = TRUE]
    /\ UNCHANGED <<cfgVars, ctxDone, tickVars, tickHist, envVars, execQueue,
                   dispVars, sret, calls, endKind, taskVars, evalAtShutdown>>

\* case <-grafanaCtx.Done(): start the grace timer
SupervisorDone(j) ==
    /\ spc[j] = "select"
    /\ AlertCtxDone(j[1])
    /\ spc' = [spc EXCEPT ![j] = "grace"]
    /\ UNCHANGED <<cfgVars, ctxDone, tickVars, tickHist, envVars, execQueue,
                   dispVars, attemptChan, supVars, taskVars, evalAtShutdown>>

\* the timer case returning nil instead of the context's error
SupervisorTimeoutNil(j) ==
    /\ spc[j] = "grace"
    /\ endJob("nil", j, "forced")
    /\ UNCHANGED <<cfgVars, ctxDone, tickVars, tickHist, envVars, execQueue,
                   dispVars, attemptChan, taskVars, evalAtShutdown>>

\* case <-unfinishedWorkTimer.C
SupervisorTimeout(j) ==
    /\ spc[j] = "grace"
    /\ endJob("ctxErr", j, "forced")
    /\ UNCHANGED <<cfgVars, ctxDone, tickVars, tickHist, envVars, execQueue,
                   dispVars, attemptChan, taskVars, evalAtShutdown>>

\* case <-attemptChan, inside the grace period
SupervisorGraceAttempt(j) ==
    /\ spc[j] = "grace"
    /\ Readable(attemptChan[j])
    /\ attemptChan' = [attemptChan EXCEPT ![j].buf =
                          IF @ = <<>> THEN @ ELSE Tail(@)]
    /\ endJob("nil", j, "graceful")
    /\ UNCHANGED <<cfgVars, ctxDone, tickVars, tickHist, envVars, execQueue,
                   dispVars, taskVars, evalAtShutdown>>

\* a supervisor that returns an error when the attempt channel is closed
SupervisorAttemptErr(j) ==
    /\ spc[j] = "select"
    /\ Readable(attemptChan[j])
    /\ IF attemptChan[j].buf # <<>>
       THEN /\ attemptChan' = [attemptChan EXCEPT ![j].buf = Tail(@)]
            /\ apc' = [apc EXCEPT ![j][Head(attemptChan[j].buf)] = "start"]
            /\ attempts' = [attempts EXCEPT ![j] =
                   Append(@, [id |-> Head(attemptChan[j].buf), out |-> "started"])]
            /\ UNCHANGED <<spc, supVars>>
       ELSE /\ endJob("ctxErr", j, "natural")
            /\ UNCHANGED <<attemptChan, apc, attempts>>
    /\ UNCHANGED <<cfgVars, ctxDone, tickVars, tickHist, envVars, execQueue,
                   dispVars, evalContext, ruleState, handled, created,
                   registered, evalAtShutdown>>

\* case more := <-attemptChan
SupervisorAttempt(j) ==
    /\ spc[j] = "select"
    /\ Readable(attemptChan[j])
    /\ IF attemptChan[j].buf # <<>>
       THEN /\ attemptChan' = [attemptChan EXCEPT ![j].buf = Tail(@)]
            /\ apc' = [apc EXCEPT ![j][Head(attemptChan[j].buf)] = "start"]
            /\ attempts' = [attempts EXCEPT ![j] =
                   Append(@, [id |-> Head(attemptChan[j].buf), out |-> "started"])]
            /\ UNCHANGED <<spc, supVars>>
       ELSE /\ endJob("nil", j, "natural")
            /\ UNCHANGED <<attemptChan, apc, attempts>>
    /\ UNCHANGED <<cfgVars, ctxDone, tickVars, tickHist, envVars, execQueue,
                   dispVars, evalContext, ruleState, handled, created,
                   registered, evalAtShutdown>>

\* ----------------------------------------------------------- attempt task
\* processJob(...) is a task of its own for every attempt: k is the number
\* of the attempt, apc[j][k] its position, evalContext[j][k] its context
SetOut(log, k, out) ==
    [n \in DOMAIN log |->
        IF log[n].id = k THEN [log[n] EXCEPT !.out = out] ELSE log[n]]

\* a processJob that signals the next attempt before its evaluator has run
ProcessJobStartSignalsEarly(j, k) ==
    /\ apc[j][k] = "start"
    /\ ~cancelChan[j].closed
    /\ created' = [created EXCEPT ![j] = @ \cup {<<"eval", k>>}]
    /\ cancelChan' = [cancelChan EXCEPT ![j].buf = Append(@, <<"eval", k>>)]
    /\ registered' = [registered EXCEPT ![j] = @ \cup {<<"eval", k>>}]
    /\ evalContext' = [evalContext EXCEPT ![j][k] = NoCtx]
    /\ attempts' = [attempts EXCEPT ![j] = SetOut(@, k, "running")]
    /\ apc' = [apc EXCEPT ![j][k] = "eval"]
    /\ attemptChan' = [attemptChan EXCEPT ![j].buf =
                          IF k < AlertingMaxAttempts THEN <<k + 1>> ELSE @]
    /\ UNCHANGED <<cfgVars, ctxDone, tickVars, tickHist, envVars, execQueue,
                   dispVars, spc, sret, running, calls, endKind,
                   ruleState, handled, evalAtShutdown>>

\* processJob up to the call of the evaluator: create the evaluation context,
\* cancelChan <- cancelFn (a send on a closed channel panics and is recovered
\* by processJob's deferred function), start the nested goroutine
ProcessJobStart(j, k) ==
    /\ apc[j][k] = "start"
    /\ CanSend(cancelChan[j], CancelCap)
    /\ created' = [created EXCEPT ![j] = @ \cup {<<"eval", k>>}]
    /\ IF cancelChan[j].closed
       THEN /\ apc' = [apc EXCEPT ![j][k] = "end"]
            /\ attempts' = [attempts EXCEPT ![j] = SetOut(@, k, "aborted")]
            /\ UNCHANGED <<cancelChan, evalContext, registered>>
       ELSE /\ cancelChan' = [cancelChan EXCEPT ![j].buf = Append(@, <<"eval", k>>)]
            /\ registered' = [registered EXCEPT ![j] = @ \cup {<<"eval", k>>}]
            /\ evalContext' = [evalContext EXCEPT ![j][k] = NoCtx]
            /\ attempts' = [attempts EXCEPT ![j] = SetOut(@, k, "running")]
            /\ apc' = [apc EXCEPT ![j][k] = "eval"]
    /\ UNCHANGED <<cfgVars, ctxDone, tickVars, tickHist, envVars, execQueue,
                   dispVars, spc, attemptChan, sret, running, calls, endKind,
                   ruleState, handled, evalAtShutdown>>

\* e.evalHandler.Eval(evalContext) returns with or without an error
EvalReturn(j, k, out) ==
    /\ apc[j][k] = "eval"
    /\ out \in {"ok", "err"}
    /\ evalContext' = [evalContext EXCEPT ![j][k] = [Error |-> out = "err"]]
    /\ attempts' = [attempts EXCEPT ![j] = SetOut(@, k, out)]
    /\ apc' = [apc EXCEPT ![j][k] = "evaluated"]
    /\ UNCHANGED <<cfgVars, ctxDone, tickVars, tickHist, envVars, execQueue,
                   dispVars, spc, attemptChan, supVars, ruleState, handled,
                   created, registered, evalAtShutdown>>

\* a recover that forgets close(attemptChan)
RecoveredNoClose(j, k) ==
    /\ attemptChan' = attemptChan
    /\ apc' = [apc EXCEPT ![j][k] = "end"]

\* the recover of the nested goroutine, and its regular end: close(attemptChan)
Recovered(j, k) ==
    /\ attemptChan' = [attemptChan EXCEPT ![j] = Close(@)]
    /\ apc' = [apc EXCEPT ![j][k] = "end"]

\* e.evalHandler.Eval(evalContext) panics
EvalPanic(j, k) ==
    /\ apc[j][k] = "eval"
    /\ attempts' = [attempts EXCEPT ![j] = SetOut(@, k, "panic")]
    /\ Recovered(j, k)
    /\ UNCHANGED <<cfgVars, ctxDone, tickVars, tickHist, envVars, execQueue,
                   dispVars, spc, supVars, evalContext, ruleState, handled,
                   created, registered, evalAtShutdown>>

\* a retry decision that never retries
RetryNever(j, k) == evalContext[j][k].Error /\ k < 1
\* a retry decision that ignores the evaluation's error
RetryAlways(j, k) == k < AlertingMaxAttempts
\* a retry decision that allows one attempt too many
RetryOffByOne(j, k) == evalContext[j][k].Error /\ k <= AlertingMaxAttempts

\* if evalContext.Error != nil && attemptID < setting.AlertingMaxAttempts
Retry(j, k) == evalContext[j][k].Error /\ k < AlertingMaxAttempts

\* attemptChan <- (attemptID + 1); return
ProcessJobRetry(j, k) ==
    /\ apc[j][k] = "evaluated"
    /\ Retry(j, k)
    /\ ~attemptChan[j].closed
    /\ Len(attemptChan[j].buf) < 1
    /\ attemptChan' = [attemptChan EXCEPT ![j].buf = Append(@, k + 1)]
    /\ apc' = [apc EXCEPT ![j][k] = "end"]
    /\ UNCHANGED <<cfgVars, ctxDone, tickVars, tickHist, envVars, execQueue,
                   dispVars, spc, supVars, evalContext, ruleState, attempts,
                   handled, created, registered, evalAtShutdown>>

\* create the result-handling context, cancelChan <- resultHandleCancelFn
\* (panics when the channel is closed), set the rule's state and call the
\* result handler
ProcessJobResult(j, k) ==
    /\ apc[j][k] = "evaluated"
    /\ ~Retry(j, k)
    /\ CanSend(cancelChan[j], CancelCap)
    /\ created' = [created EXCEPT ![j] = @ \cup {<<"result", k>>}]
    /\ IF cancelChan[j].closed
       THEN /\ Recovered(j, k)
            /\ UNCHANGED <<cancelChan, ruleState, handled, registered>>
       ELSE /\ cancelChan' = [cancelChan EXCEPT ![j].buf = Append(@, <<"result", k>>)]
            /\ registered' = [registered EXCEPT ![j] = @ \cup {<<"result", k>>}]
            /\ ruleState' = [ruleState EXCEPT ![j] = GetNewState(evalContext[j][k])]
            /\ handled' = [handled EXCEPT ![j] =
                              Append(@, GetNewState(evalContext[j][k]))]
            /\ apc' = [apc EXCEPT ![j][k] = "handle"]
            /\ UNCHANGED attemptChan
    /\ UNCHANGED <<cfgVars, ctxDone, tickVars, tickHist, envVars, execQueue,
                   dispVars, spc, sret, running, calls, endKind, evalContext,
                   attempts, evalAtShutdown>>

\* e.resultHandler.handle returns (nil or an error) or panics; either way the
\* nested goroutine ends with close(attemptChan)
HandleReturn(j, k, res) ==
    /\ apc[j][k] = "handle"
    /\ res \in {"nil", "err", "panic"}
    /\ Recovered(j, k)
    /\ UNCHANGED <<cfgVars, ctxDone, tickVars, tickHist, envVars, execQueue,
                   dispVars, spc, supVars, evalContext, ruleState, attempts,
                   handled, created, registered, evalAtShutdown>>

\* the attempts of job j whose evaluator is running
Evaluating(j) == {k \in AttemptIDs : apc[j][k] = "eval"}
\* no attempt task of job j is left
TasksEnded(j) == \A k \in AttemptIDs : apc[j][k] \in {"none", "end"}

\* ------------------------------------------------------------ dispatcher
\* case job := <-e.execQueue: dispatcherGroup.Go(processJobWithRetry)
DispatcherReceive(i) ==
    /\ dpc[i] = "select"
    /\ execQueue[i] # <<>>
    /\ execQueue' = [execQueue EXCEPT ![i] = Tail(@)]
    /\ spc' = [spc EXCEPT ![<<i, Head(execQueue[i])>>] = "spawned"]
    /\ UNCHANGED <<cfgVars, ctxDone, tickVars, tickHist, envVars, dispVars,
                   attemptChan, supVars, taskVars, evalAtShutdown>>

\* case <-grafanaCtx.Done(): go on to dispatcherGroup.Wait()
DispatcherDone(i) ==
    /\ dpc[i] = "select"
    /\ GroupCtxDone(i)
    /\ dpc' = [dpc EXCEPT ![i] = "wait"]
    /\ UNCHANGED <<cfgVars, ctxDone, tickVars, tickHist, envVars, execQueue,
                   dret, spc, attemptChan, supVars, taskVars, evalAtShutdown>>

Started(i) == {j \in JobsOf(i) : spc[j] \in {"spawned", "select", "grace", "done"}}

\* a dispatcher that returns without waiting for its supervisors
DispatcherReturnNoWait(i) ==
    /\ dpc[i] = "wait"
    /\ dpc' = [dpc EXCEPT ![i] = "returned"]
    /\ dret' = [dret EXCEPT ![i] =
                   IF \E j \in JobsOf(i) : sret[j] = "ctxErr" THEN "ctxErr" ELSE "nil"]
    /\ UNCHANGED <<cfgVars, ctxDone, tickVars, tickHist, envVars, execQueue,
                   spc, attemptChan, supVars, taskVars, evalAtShutdown>>

\* dispatcherGroup.Wait() returns the first error of the supervisors
DispatcherReturn(i) ==
    /\ dpc[i] = "wait"
    /\ \A j \in Started(i) : spc[j] = "done"
    /\ dpc' = [dpc EXCEPT ![i] = "returned"]
    /\ dret' = [dret EXCEPT ![i] =
                   IF \E j \in JobsOf(i) : sret[j] = "ctxErr" THEN "ctxErr" ELSE "nil"]
    /\ UNCHANGED <<cfgVars, ctxDone, tickVars, tickHist, envVars, execQueue,
                   spc, attemptChan, supVars, taskVars, evalAtShutdown>>

\* -------------------------------------------------------------- tick loop
\* a refresh on every tick
UpdateEveryTick(idx) == idx % 1 = 0

\* if tickIndex%10 == 0
UpdateDue(idx) == idx % RefreshEvery = 0

\* the rules the scheduler may emit a job for on a tick: those of its rule
\* set whose job is neither in flight nor marked running
Eligible(i) ==
    {r \in schedRules[i] : spc[<<i, r>>] = "idle" /\ ~running[<<i, r>>]}

\* tickIndex++ and back to the select
TickEnd(i) ==
    /\ tickIndex' = [tickIndex EXCEPT ![i] = @ + 1]
    /\ tpc' = [tpc EXCEPT ![i] = "select"]

\* case tick := <-e.ticker.C, up to the read of the lease record:
\* e.scheduler.Update(e.ruleReader.fetch()) on every tenth tick, then
\* e.RemoteCacheService.Get, which yields nil when it fails
TickBegin(i, getOk) ==
    /\ tpc[i] = "select"
    /\ IF UpdateDue(tickIndex[i])
       THEN /\ schedRules' = [schedRules EXCEPT ![i] = catalog]
            /\ refreshed' = [refreshed EXCEPT ![i] = @ \cup {tickIndex[i]}]
       ELSE UNCHANGED <<schedRules, refreshed>>
    /\ snapshot' = [snapshot EXCEPT ![i] =
                       IF tickIndex[i] % 10 = 0 THEN catalog ELSE @]
    /\ cache_record' = [cache_record EXCEPT ![i] =
                           IF AlertingClusteringEnabled /\ getOk THEN cache ELSE Nil]
    /\ lastTick' = [lastTick EXCEPT ![i] =
                       [index |-> tickIndex[i], getOk |-> getOk, actual |-> cache,
                        read |-> IF AlertingClusteringEnabled /\ getOk
                                 THEN cache ELSE Nil,
                        wrote |-> Nil, setOk |-> TRUE, scheduled |-> FALSE,
                        rules |-> {}, ended |-> FALSE,
                        settled |-> \A p \in Inst : tickIndex[p] >= 2,
                        prev |-> [scheduled |-> lastTick[i].scheduled,
                                 rules |-> lastTick[i].rules]]]
    /\ tpc' = [tpc EXCEPT ![i] = "decide"]
    /\ UNCHANGED <<cfgVars, ctxDone, tret, tickIndex, pending, envVars,
                   execQueue, dispVars, spc, attemptChan, supVars, taskVars,
                   evalAtShutdown>>

\* a lease check that does not claim a lease nobody holds
ClaimsOnlyOwn(i) == cache_record[i] # Nil /\ cache_record[i].Instance = i

\* a lease check that ignores the instance the record names
ClaimsAlways(i) == cache_record[i] = Nil \/ cache_record[i].Instance \in Inst

\* if cache_record == nil || current_active_instance == cluster_alerting_instance
Claims(i) ==
    LET current_active_instance ==
            IF cache_record[i] # Nil THEN cache_record[i].Instance ELSE i
    IN  cache_record[i] = Nil \/ current_active_instance = i

\* the rest of the tick: write the lease record or skip the tick, then
\* e.scheduler.Tick(tick, e.execQueue) for the due rules
TickDecide(i, setOk, due) ==
    /\ tpc[i] = "decide"
    /\ LET write == AlertingClusteringEnabled /\ Claims(i)
           schedule_alerts == ~AlertingClusteringEnabled \/ Claims(i)
       IN  /\ write \/ setOk
           /\ cache' = IF write /\ setOk THEN ClusterAlertingInstance(i) ELSE cache
           /\ due \subseteq (IF schedule_alerts THEN Eligible(i) ELSE {})
           /\ lastTick' = [lastTick EXCEPT ![i] =
                  [@ EXCEPT !.wrote = IF write THEN ClusterAlertingInstance(i) ELSE Nil,
                            !.setOk = setOk,
                            !.scheduled = schedule_alerts,
                            !.rules = IF schedule_alerts THEN schedRules[i] ELSE {},
                            !.ended = TRUE]]
    /\ pending' = [pending EXCEPT ![i] = due]
    /\ spc' = [j \in Jobs |-> IF j[1] = i /\ j[2] \in due THEN "due" ELSE spc[j]]
    /\ IF due = {}
       THEN TickEnd(i)
       ELSE /\ tpc' = [tpc EXCEPT ![i] = "push"]
            /\ UNCHANGED tickIndex
    /\ UNCHANGED <<cfgVars, ctxDone, tret, cache_record, schedRules, refreshed,
                   snapshot, catalog, execQueue, dispVars, attemptChan, supVars,
                   taskVars, evalAtShutdown>>

\* execQueue <- job inside e.scheduler.Tick: blocks while the queue is full
TickPush(i, r) ==
    /\ tpc[i] = "push"
    /\ r \in pending[i]
    /\ Len(execQueue[i]) < QueueCap
    /\ execQueue' = [execQueue EXCEPT ![i] = Append(@, r)]
    /\ pending' = [pending EXCEPT ![i] = @ \ {r}]
    /\ spc' = [spc EXCEPT ![<<i, r>>] = "queued"]
    /\ IF pending[i] = {r}
       THEN TickEnd(i)
       ELSE UNCHANGED <<tpc, tickIndex>>
    /\ UNCHANGED <<cfgVars, ctxDone, tret, cache_record, schedRules, tickHist,
                   envVars, dispVars, attemptChan, supVars, taskVars,
                   evalAtShutdown>>

\* case <-grafanaCtx.Done(): return grafanaCtx.Err()
TickerDone(i) ==
    /\ tpc[i] = "select"
    /\ GroupCtxDone(i)
    /\ tpc' = [tpc EXCEPT ![i] = "returned"]
    /\ tret' = [tret EXCEPT ![i] = "ctxErr"]
    /\ UNCHANGED <<cfgVars, ctxDone, tickIndex, cache_record, pending,
                   schedRules, tickHist, envVars, execQueue, dispVars, spc,
                   attemptChan, supVars, taskVars, evalAtShutdown>>

\* a panic in the body of a tick: the deferred recover logs it and
\* alertingTicker returns nil
TickerPanic(i) ==
    /\ tpc[i] \in {"select", "decide"}
    /\ tpc' = [tpc EXCEPT ![i] = "returned"]
    /\ tret' = [tret EXCEPT ![i] = "nil"]
    /\ UNCHANGED <<cfgVars, ctxDone, tickIndex, cache_record, pending,
                   schedRules, tickHist, envVars, execQueue, dispVars, spc,
                   attemptChan, supVars, taskVars, evalAtShutdown>>

\* ----------------------------------------------------------- environment
\* the context passed to Run is cancelled
Shutdown(i) ==
    /\ ~ctxDone[i]
    /\ ctxDone' = [ctxDone EXCEPT ![i] = TRUE]
    /\ UNCHANGED <<cfgVars, tickVars, tickHist, envVars, execQueue, dispVars,
                   spc, attemptChan, supVars, taskVars, evalAtShutdown>>

\* the same, with a record of the jobs whose evaluator is running then
ShutdownRecorded(i) ==
    /\ ~ctxDone[i]
    /\ ctxDone' = [ctxDone EXCEPT ![i] = TRUE]
    /\ evalAtShutdown' = evalAtShutdown \cup {j \in JobsOf(i) : Evaluating(j) # {}}
    /\ UNCHANGED <<cfgVars, tickVars, tickHist, envVars, execQueue, dispVars,
                   spc, attemptChan, supVars, taskVars>>

\* a rule is added to the catalog
CatalogAdd(r) ==
    /\ r \notin catalog
    /\ catalog' = catalog \cup {r}
    /\ UNCHANGED <<cfgVars, ctxDone, tickVars, tickHist, cache, execQueue,
                   dispVars, spc, attemptChan, supVars, taskVars, evalAtShutdown>>

\* the lease record reaches its TTL
CacheExpire ==
    /\ cache # Nil
    /\ cache' = Nil
    /\ UNCHANGED <<cfgVars, ctxDone, tickVars, tickHist, catalog, execQueue,
                   dispVars, spc, attemptChan, supVars, taskVars, evalAtShutdown>>

\* --------------------------------------------------------- specifications
NoTick == [index |-> 0, getOk |-> TRUE, actual |-> Nil, read |-> Nil,
           wrote |-> Nil, setOk |-> TRUE, scheduled |-> FALSE, rules |-> {},
           ended |-> FALSE, settled |-> FALSE,
           prev |-> [scheduled |-> FALSE, rules |-> {}]]

\* the state after Init(), before Run
InitState ==
    /\ ctxDone = [i \in Inst |-> FALSE]
    /\ tpc = [i \in Inst |-> "select"]
    /\ tret = [i \in Inst |-> "none"]
    /\ tickIndex = [i \in Inst |-> 0]
    /\ cache_record = [i \in Inst |-> Nil]
    /\ pending = [i \in Inst |-> {}]
    /\ schedRules = [i \in Inst |-> {}]
    /\ cache = Nil
    /\ execQueue = [i \in Inst |-> <<>>]
    /\ dpc = [i \in Inst |-> "select"]
    /\ dret = [i \in Inst |-> "none"]
    /\ spc = [j \in Jobs |-> "idle"]
    /\ sret = [j \in Jobs |-> "none"]
    /\ running = [j \in Jobs |-> FALSE]
    /\ attemptChan = [j \in Jobs |-> NewChan]
    /\ cancelChan = [j \in Jobs |-> NewChan]
    /\ apc = [j \in Jobs |-> [k \in AttemptIDs |-> "none"]]
    /\ evalContext = [j \in Jobs |-> [k \in AttemptIDs |-> NoCtx]]
    /\ ruleState = [j \in Jobs |-> "unknown"]
    /\ attempts = [j \in Jobs |-> <<>>]
    /\ handled = [j \in Jobs |-> <<>>]
    /\ created = [j \in Jobs |-> {}]
    /\ registered = [j \in Jobs |-> {}]
    /\ calls = [j \in Jobs |-> [f \in CancelFns |-> 0]]
    /\ endKind = [j \in Jobs |-> "none"]
    /\ evalAtShutdown = {}
    /\ lastTick = [i \in Inst |-> NoTick]
    /\ refreshed = [i \in Inst |-> {}]
    /\ snapshot = [i \in Inst |-> {}]

\* one engine, instance A, with every rule in the catalog
Init ==
    /\ InitState
    /\ AlertingMaxAttempts \in 1..MaxAttemptsBound
    /\ AlertingClusteringEnabled = FALSE
    /\ catalog = Rules

\* one step of the tick loop of instance i, which receives at most n ticks
TickOf(i, n) ==
    \/ \E getOk \in BOOLEAN :
          /\ tickIndex[i] < n
          /\ AlertingClusteringEnabled \/ getOk
          /\ TickBegin(i, getOk)
    \/ \E setOk \in BOOLEAN, due \in SUBSET Rules : TickDecide(i, setOk, due)
    \/ \E r \in Rules : TickPush(i, r)

Tick == TickOf("A", EngineTicks)

Ticker == Tick \/ TickerDone("A") \/ TickerPanic("A")

Dispatcher == DispatcherReceive("A") \/ DispatcherDone("A") \/ DispatcherReturn("A")

Supervisor(j) ==
    \/ SupervisorStart(j)
    \/ SupervisorAttempt(j)
    \/ SupervisorDone(j)
    \/ SupervisorGraceAttempt(j)
    \/ SupervisorTimeout(j)

Task(j, k) ==
    \/ ProcessJobStart(j, k)
    \/ \E out \in {"ok", "err"} : EvalReturn(j, k, out)
    \/ EvalPanic(j, k)
    \/ ProcessJobRetry(j, k)
    \/ ProcessJobResult(j, k)
    \/ \E res \in {"nil", "err", "panic"} : HandleReturn(j, k, res)

Next ==
    \/ Shutdown("A")
    \/ Ticker
    \/ Dispatcher
    \/ \E j \in JobsOf("A") : Supervisor(j)
    \/ \E j \in JobsOf("A"), k \in AttemptIDs : Task(j, k)

Spec == Init /\ [][Next]_vars

\* the same engine, keeping the record of the jobs that were mid-evaluation
\* when shutdown began
NextGrace ==
    \/ ShutdownRecorded("A")
    \/ Ticker
    \/ Dispatcher
    \/ \E j \in JobsOf("A") : Supervisor(j)
    \/ \E j \in JobsOf("A"), k \in AttemptIDs : Task(j, k)

SpecGrace == Init /\ [][NextGrace]_vars

\* two instances that share the remote cache: their tick loops and the
\* receiving end of their queues, one rule in the catalog
InitLease ==
    /\ InitState
    /\ AlertingMaxAttempts = 1
    /\ AlertingClusteringEnabled \in BOOLEAN
    /\ catalog = {"r1"}

LeaseTick == \E i \in Inst : TickOf(i, LeaseTicks)

LeaseReceive == \E i \in Inst : DispatcherReceive(i)

NextLease == LeaseTick \/ LeaseReceive \/ CacheExpire

SpecLease == InitLease /\ [][NextLease]_vars

\* two instances with clustering enabled whose cache operations all succeed
\* and whose lease record never expires
InitSteady ==
    /\ InitState
    /\ AlertingMaxAttempts = 1
    /\ AlertingClusteringEnabled = TRUE
    /\ catalog = {"r1"}

SteadyTick ==
    \E i \in Inst :
        \/ tickIndex[i] < SteadyTicks /\ TickBegin(i, TRUE)
        \/ \E due \in SUBSET Rules : TickDecide(i, TRUE, due)
        \/ \E r \in Rules : TickPush(i, r)

SteadyReceive == \E i \in Inst : DispatcherReceive(i)

NextSteady == SteadyTick \/ SteadyReceive

SpecSteady == InitSteady /\ [][NextSteady]_vars

\* the tick loop of instance A over more than ten ticks, with a catalog that
\* grows and a lease that instance B may hold at the start
InitRefresh ==
    /\ InitState
    /\ AlertingMaxAttempts = 1
    /\ AlertingClusteringEnabled \in BOOLEAN
    /\ catalog = {"r1"}

\* a peer that runs with clustering enabled takes the lease before A's
\* first tick
PeerClaims ==
    /\ cache = Nil
    /\ tickIndex["A"] = 0 /\ tpc["A"] = "select"
    /\ cache' = ClusterAlertingInstance("B")
    /\ UNCHANGED <<cfgVars, ctxDone, tickVars, tickHist, catalog, execQueue,
                   dispVars, spc, attemptChan, supVars, taskVars, evalAtShutdown>>

RefreshTick == TickOf("A", RefreshTicks)

RefreshReceive == DispatcherReceive("A")

RefreshAdd == \E r \in Rules : CatalogAdd(r)

NextRefresh ==
    RefreshTick \/ RefreshReceive \/ RefreshAdd \/ CacheExpire \/ PeerClaims

SpecRefresh == InitRefresh /\ [][NextRefresh]_vars

\* ------------------------------------------------------------------ claims
Last(log) == log[Len(log)]
NoPanic(j) == \A k \in 1..Len(attempts[j]) : attempts[j][k].out # "panic"
\* the attempt returned and no retry follows it
Terminal(a) ==
    \/ a.out = "ok"
    \/ a.out = "err" /\ a.id = AlertingMaxAttempts
\* the state the result handler is to see after attempt a
StateOf(a) == IF a.out = "err" THEN "error" ELSE "ok"

\* C1: a job that ran to its end without shutdown and without a panic made
\* exactly k attempts when attempt k was the first without error, exactly
\* AlertingMaxAttempts attempts when all failed, and the result handler was
\* invoked exactly once, with the state of the final attempt.
C1_AttemptsThenOneHandling ==
    \A j \in Jobs :
        (spc[j] = "done" /\ ~ctxDone[j[1]] /\ NoPanic(j)) =>
            LET n == Len(attempts[j]) IN
            /\ n \in 1..AlertingMaxAttempts
            /\ \A k \in 1..(n - 1) : attempts[j][k].out = "err"
            /\ Terminal(attempts[j][n])
            /\ attempts[j][n].out = "err" => n = AlertingMaxAttempts
            /\ Len(handled[j]) = 1
            /\ handled[j][1] = StateOf(attempts[j][n])

C1_Witness ==
    \E j \in Jobs :
        /\ spc[j] = "done" /\ ~ctxDone[j[1]]
        /\ Len(attempts[j]) = 2
        /\ attempts[j][1].out = "err" /\ attempts[j][2].out = "ok"
        /\ handled[j] = <<"ok">>

\* C2: a cancellation function that was put on the job's cancel channel is
\* invoked exactly once by the time the supervisor has returned, on every
\* exit path, and never before or more often.
C2_RegisteredInvokedOnce ==
    \A j \in Jobs : \A f \in CancelFns :
        calls[j][f] = IF spc[j] = "done" /\ f \in registered[j] THEN 1 ELSE 0

C2_Witness ==
    \E j \in Jobs :
        /\ endKind[j] = "forced"
        /\ registered[j] = {<<"eval", 1>>, <<"result", 1>>}
        /\ \A f \in registered[j] : calls[j][f] = 1

\* C3: every cancellation function created for a job is invoked exactly once
\* when the supervisor has returned and the attempt task has ended.
C3_CreatedInvokedOnce ==
    \A j \in Jobs :
        (spc[j] = "done" /\ TasksEnded(j)) =>
            \A f \in created[j] : calls[j][f] = 1

\* C5: the supervisor returns the context's error exactly when it ended the
\* job on the grace timer, which it does only after the context is done and
\* with every registered cancellation function invoked; every other exit
\* returns no error.
C5_ErrorOnlyWhenForced ==
    \A j \in Jobs :
        /\ endKind[j] = "forced" =>
              /\ sret[j] = "ctxErr"
              /\ ctxDone[j[1]]
              /\ \A f \in registered[j] : calls[j][f] = 1
        /\ endKind[j] \in {"natural", "graceful"} => sret[j] = "nil"
        /\ spc[j] = "done" <=> sret[j] # "none"
        /\ spc[j] = "done" <=> endKind[j] # "none"

C5_Witness ==
    \E j \in Jobs :
        /\ ctxDone[j[1]]
        /\ endKind[j] = "forced"
        /\ sret[j] = "ctxErr"
        /\ Evaluating(j) = {1}

\* C6: a job that was mid-evaluation when shutdown started, had no panic and
\* was ended inside the grace period has had a terminal attempt followed by
\* result handling.
C6_GracefulEndIsNormalEnd ==
    \A j \in evalAtShutdown :
        (endKind[j] = "graceful" /\ NoPanic(j)) =>
            /\ Terminal(Last(attempts[j]))
            /\ Len(handled[j]) = 1

\* what Run waits for: the two loops and the supervisors
EngineStep == Ticker \/ Dispatcher \/ \E j \in JobsOf("A") : Supervisor(j)

\* C7: once shutdown is requested, Run returns: as long as it has not, one of
\* the tasks it waits for can take a step, whatever the evaluators and
\* result handlers do and however full the execution queue is.
C7_RunReturnsAfterShutdown ==
    ctxDone["A"] => (RunReturned("A") \/ ENABLED EngineStep)

\* C8: a panic of a job's evaluator closes the job's attempt channel, so the
\* supervisor ends the job without an error; while the engine is not shut
\* down the dispatcher keeps receiving, the shared context stays live, and a
\* sibling job that ends has had its terminal attempt and its result handling.
C8_PanicContained ==
    \A j \in Jobs :
        ~NoPanic(j) =>
            /\ attemptChan[j].closed
            /\ TasksEnded(j)
            /\ spc[j] \in {"select", "grace", "done"}
            /\ endKind[j] \in {"natural", "graceful"} => sret[j] = "nil"
            /\ ~ctxDone[j[1]] =>
                  /\ endKind[j] \in {"none", "natural"}
                  /\ dpc[j[1]] = "select"
                  /\ tret[j[1]] # "ctxErr"
                  /\ ~AlertCtxDone(j[1])
                  /\ \A s \in JobsOf(j[1]) \ {j} :
                        (spc[s] = "done" /\ NoPanic(s)) =>
                            /\ sret[s] = "nil"
                            /\ Terminal(Last(attempts[s]))
                            /\ Len(handled[s]) = 1

C8_Witness ==
    \E j \in Jobs, s \in Jobs :
        /\ j # s /\ j[1] = s[1]
        /\ ~ctxDone[j[1]]
        /\ ~NoPanic(j) /\ spc[j] = "done"
        /\ NoPanic(s) /\ spc[s] = "done" /\ handled[s] = <<"ok">>

\* C10: the attempts of a job are numbered 1, 2, 3, ... in the order they are
\* started, and no number exceeds AlertingMaxAttempts, neither of an attempt
\* started nor of one signalled on the attempt channel.
C10_AttemptNumbers ==
    \A j \in Jobs :
        /\ \A k \in 1..Len(attempts[j]) : attempts[j][k].id = k
        /\ Len(attempts[j]) <= AlertingMaxAttempts
        /\ \A k \in AttemptIDs : apc[j][k] # "none" <=> k <= Len(attempts[j])
        /\ \A k \in 1..Len(attemptChan[j].buf) :
              attemptChan[j].buf[k] = Len(attempts[j]) + 1
              /\ attemptChan[j].buf[k] <= AlertingMaxAttempts

C10_Witness ==
    \E j \in Jobs :
        /\ AlertingMaxAttempts = 2
        /\ Len(attempts[j]) = 2
        /\ attempts[j][1].id = 1 /\ attempts[j][2].id = 2
        /\ attempts[j][2].out = "err"

\* the attempts of job j that were started and have not ended
Active(j) == {k \in AttemptIDs : apc[j][k] \notin {"none", "end"}}

\* C11: the attempts of one job are strictly sequential: at most one attempt
\* task, and so at most one evaluator invocation, of a job is in progress;
\* attempt k+1 exists only when attempt k has ended after its evaluator
\* returned an error, and no attempt is in progress while a retry signal is
\* pending. Attempts of different jobs run at the same time.
C11_AttemptsSequential ==
    \A j \in Jobs :
        /\ Cardinality(Active(j)) <= 1
        /\ Cardinality(Evaluating(j)) <= 1
        /\ attemptChan[j].buf # <<>> => Active(j) = {}
        /\ \A k \in AttemptIDs \ {1} :
              apc[j][k] # "none" =>
                  /\ apc[j][k - 1] = "end"
                  /\ attempts[j][k - 1].out = "err"

\* the second attempt of one job and the first of another are evaluating
C11_Witness ==
    /\ Evaluating(<<"A", "r1">>) = {2}
    /\ attempts[<<"A", "r1">>][1].out = "err"
    /\ Evaluating(<<"A", "r2">>) = {1}

\* the attempts of job j whose result handler is running
Handling(j) == {k \in AttemptIDs : apc[j][k] = "handle"}

\* C12: in every interleaving, shutdown and panics included, the result
\* handler is invoked at most once per job, only for the job's last attempt,
\* which returned without error or was attempt AlertingMaxAttempts, with that
\* attempt's state, and never while an evaluation of the job is in progress.
C12_HandlerOnceAfterTerminal ==
    \A j \in Jobs :
        /\ Len(handled[j]) <= 1
        /\ Cardinality(Handling(j)) <= 1
        /\ Handling(j) # {} => (handled[j] # <<>> /\ Evaluating(j) = {})
        /\ \A k \in Handling(j) : k = Len(attempts[j])
        /\ handled[j] # <<>> =>
              /\ attempts[j] # <<>>
              /\ Terminal(Last(attempts[j]))
              /\ handled[j] = <<StateOf(Last(attempts[j]))>>
              /\ ruleState[j] = handled[j][1]
        /\ handled[j] = <<>> => ruleState[j] = "unknown"

\* result handling of an exhausted job while the engine is shutting down
C12_Witness ==
    \E j \in Jobs :
        /\ ctxDone[j[1]]
        /\ AlertingMaxAttempts = 2
        /\ Handling(j) = {2}
        /\ attempts[j][1].out = "err" /\ attempts[j][2].out = "err"
        /\ handled[j] = <<"error">>

\* what a step does to the dispatcher of instance i
DispatcherStep(i) ==
    /\ Len(execQueue'[i]) < Len(execQueue[i]) =>
          /\ dpc[i] = "select" /\ dpc'[i] = "select"
          /\ execQueue'[i] = Tail(execQueue[i])
          /\ Started(i)' = Started(i) \cup {<<i, Head(execQueue[i])>>}
          /\ spc'[<<i, Head(execQueue[i])>>] = "spawned"
    /\ Started(i)' # Started(i) => Len(execQueue'[i]) < Len(execQueue[i])
    /\ dpc[i] \in {"wait", "returned"} =>
          /\ Len(execQueue'[i]) >= Len(execQueue[i])
          /\ Started(i)' = Started(i)
          /\ dpc'[i] \in {"wait", "returned"}
    /\ (dpc[i] = "select" /\ dpc'[i] # "select") => GroupCtxDone(i)
    /\ dpc'[i] = "returned" => \A j \in Started(i)' : spc'[j] = "done"

\* C13: the dispatcher starts one supervisor for each job it takes from the
\* execution queue and goes back to its select without waiting for it; once
\* it has taken the shutdown case it takes no further job, and it returns
\* only when every supervisor it started has returned.
C13_DispatcherContract ==
    [][\A i \in Inst : DispatcherStep(i)]_vars

\* the dispatcher returned after the forced end of the one job it started,
\* the other job is still in the queue
C13_Witness ==
    /\ dpc["A"] = "returned"
    /\ Started("A") = {<<"A", "r1">>}
    /\ endKind[<<"A", "r1">>] = "forced"
    /\ execQueue["A"] = <<"r2">>

\* the tick loop of instance i stopped on a panic in its body
TickerFailed(i) == tpc[i] = "returned" /\ tret[i] = "nil"

\* C14: when the tick loop stops because of a failure in its body, the
\* context of the two loops is cancelled, so the dispatcher is told to stop;
\* the engine is never left with the dispatcher as its only running loop.
C14_FailureStopsEngine ==
    \A i \in Inst : TickerFailed(i) => GroupCtxDone(i)

\* C17: a job is marked running from the moment its supervisor has begun
\* until the supervisor ends the job, and is not marked running before that
\* nor after the supervisor has returned, whichever way it ended: naturally,
\* after an evaluator panic, gracefully during shutdown or by force.
C17_RunningFlag ==
    \A j \in Jobs :
        /\ spc[j] \in {"select", "grace"} => running[j]
        /\ spc[j] \in {"idle", "due", "queued", "spawned"} => ~running[j]
        /\ spc[j] = "done" =>
              /\ ~running[j]
              /\ endKind[j] \in {"natural", "graceful", "forced"}

\* one job ended after a panic of its evaluator, the other by force
C17_Witness ==
    /\ ~NoPanic(<<"A", "r1">>) /\ endKind[<<"A", "r1">>] = "natural"
    /\ endKind[<<"A", "r2">>] = "forced"
    /\ ~running[<<"A", "r1">>] /\ ~running[<<"A", "r2">>]

\* C18: the context shared by the supervisors of one dispatcher is done only
\* when the context of the engine's two loops is done; a supervisor enters
\* the shutdown path or returns an error only then, and while the engine is
\* running every job that ends, whatever its evaluations and its result
\* handling did, ends naturally with no error.
C18_SharedContextOnlyOnShutdown ==
    \A i \in Inst :
        /\ AlertCtxDone(i) => GroupCtxDone(i)
        /\ GroupCtxDone(i) => ctxDone[i]
        /\ \A j \in JobsOf(i) :
              /\ (spc[j] = "grace" \/ sret[j] = "ctxErr") => ctxDone[i]
              /\ (spc[j] = "done" /\ ~ctxDone[i]) =>
                    (sret[j] = "nil" /\ endKind[j] = "natural")

\* one job ended with its attempts exhausted, the other on a panic of its
\* evaluator, and the shared context is live
C18_Witness ==
    /\ ~ctxDone["A"] /\ ~AlertCtxDone("A")
    /\ AlertingMaxAttempts = 2
    /\ spc[<<"A", "r1">>] = "done" /\ handled[<<"A", "r1">>] = <<"error">>
    /\ spc[<<"A", "r2">>] = "done" /\ ~NoPanic(<<"A", "r2">>)

\* C19: once the supervisor has ended a job, no evaluator invocation and no
\* result-handler invocation of that job is in progress, also when the job
\* was ended by force after the grace period.
C19_NothingRunsAfterEnd ==
    \A j \in Jobs :
        spc[j] = "done" => (Evaluating(j) = {} /\ Handling(j) = {})

\* C20: a job registers at most AlertingMaxAttempts + 1 cancellation
\* functions, which the cancel channel has room for, so processJob never
\* blocks on registering one; the attempt channel never holds more than one
\* value and is empty and open whenever an attempt signals a retry, so that
\* send never blocks either.
C20_ChannelsNeverBlock ==
    \A j \in Jobs :
        /\ Cardinality(registered[j]) <= AlertingMaxAttempts + 1
        /\ AlertingMaxAttempts + 1 <= 2 * AlertingMaxAttempts
        /\ Len(cancelChan[j].buf) <= Cardinality(registered[j])
        /\ Len(attemptChan[j].buf) <= 1
        /\ \A k \in AttemptIDs :
              /\ apc[j][k] = "start" => CanSend(cancelChan[j], CancelCap)
              /\ apc[j][k] = "evaluated" =>
                    IF Retry(j, k)
                    THEN attemptChan[j] = NewChan
                    ELSE CanSend(cancelChan[j], CancelCap)

\* both attempts and the result handling registered, none invoked yet
C20_Witness ==
    \E j \in Jobs :
        /\ AlertingMaxAttempts = 2
        /\ registered[j] = {<<"eval", 1>>, <<"eval", 2>>, <<"result", 2>>}
        /\ Len(cancelChan[j].buf) = 3
        /\ Handling(j) = {2}

\* what a step of instance i's tick does with the lease
LeaseStep(i) ==
    /\ (tpc[i] = "select" /\ tpc'[i] = "decide" /\ lastTick'[i].getOk) =>
          cache_record'[i] = cache
    /\ (tpc[i] = "decide" /\ tpc'[i] \in {"select", "push"}) =>
          IF cache_record[i] # Nil /\ cache_record[i].Instance # i
          THEN /\ cache' = cache
               /\ ~lastTick'[i].scheduled
               /\ pending'[i] = {} /\ execQueue' = execQueue /\ spc' = spc
          ELSE /\ lastTick'[i].setOk =>
                     cache' = [Instance |-> i, ttl |-> AlertingClusteringTimeout]
               /\ lastTick'[i].scheduled

\* what a step of instance i's tick reads, writes and schedules
TickLeaseStep(i) ==
    /\ (tpc[i] = "select" /\ tpc'[i] = "decide") =>
          /\ cache' = cache
          /\ cache_record'[i] =
                 IF AlertingClusteringEnabled /\ lastTick'[i].getOk
                 THEN cache ELSE Nil
    /\ (tpc[i] = "decide" /\ tpc'[i] \in {"select", "push"}) =>
          LET none == cache_record[i] = Nil
              own == cache_record[i] # Nil /\ cache_record[i].Instance = i
              schedules == ~AlertingClusteringEnabled \/ none \/ own
              writes == AlertingClusteringEnabled /\ (none \/ own)
          IN  /\ lastTick'[i].scheduled <=> schedules
              /\ lastTick'[i].wrote # Nil <=> writes
              /\ cache' = IF writes /\ lastTick'[i].setOk
                          THEN [Instance |-> i, ttl |-> AlertingClusteringTimeout]
                          ELSE cache
              /\ ~schedules =>
                    (pending'[i] = {} /\ execQueue' = execQueue /\ spc' = spc)

\* C15: a tick invokes the scheduler exactly when clustering is disabled, or
\* its read of the lease yielded no record (absent or read failed), or the
\* record names this instance; with clustering enabled it writes its own
\* record with the configured TTL on exactly those ticks and neither writes
\* nor schedules when the record names another instance; with clustering
\* disabled it neither reads nor writes the cache.
C15_TickLeaseDecision ==
    [][\A i \in Inst : TickLeaseStep(i)]_vars

\* tick 0 skipped on the peer's record; the read of tick 1 failed while the
\* peer's record was still there, so tick 1 wrote its own record and scheduled
C15_Witness ==
    /\ AlertingClusteringEnabled
    /\ lastTick["A"].index = 1 /\ lastTick["A"].ended
    /\ ~lastTick["A"].prev.scheduled
    /\ ~lastTick["A"].getOk /\ lastTick["A"].actual = ClusterAlertingInstance("B")
    /\ lastTick["A"].read = Nil
    /\ lastTick["A"].scheduled /\ lastTick["A"].setOk
    /\ cache = ClusterAlertingInstance("A")

\* the instances whose last completed tick began after every instance had
\* completed two ticks, and scheduled
SettledLeaders ==
    {i \in Inst : lastTick[i].ended /\ lastTick[i].settled /\ lastTick[i].scheduled}

\* C16: while the lease record does not expire and every cache operation
\* succeeds, duplicate leadership ends: of the ticks that begin after each
\* instance has completed its first and one further tick, only those of one
\* instance schedule.
C16_DuplicateLeadershipEnds ==
    Cardinality(SettledLeaders) <= 1

\* C4: with clustering enabled, a tick that read a record naming the other
\* instance leaves the record as it is and schedules nothing; a successful
\* read yields the record as it is, none once it has expired, and a tick that
\* read none writes a record naming its own instance with the configured TTL
\* and schedules.
C4_LeaseRespected ==
    [][AlertingClusteringEnabled => \A i \in Inst : LeaseStep(i)]_vars

\* B skipped its first tick, A's record expired, B's second tick took over
C4_Witness ==
    /\ AlertingClusteringEnabled
    /\ lastTick["A"].ended /\ lastTick["A"].wrote = ClusterAlertingInstance("A")
    /\ lastTick["A"].setOk
    /\ lastTick["B"].index = 1 /\ lastTick["B"].ended
    /\ ~lastTick["B"].prev.scheduled
    /\ lastTick["B"].getOk /\ lastTick["B"].read = Nil
    /\ lastTick["B"].setOk /\ lastTick["B"].scheduled
    /\ cache = ClusterAlertingInstance("B")

\* the indices of the ticks the loop of instance i has received so far
Received(i) ==
    {t \in 0..tickIndex[i] : t < tickIndex[i] \/ tpc[i] \in {"decide", "push"}}

\* C9: the rule set is refreshed exactly on the ticks whose index is a
\* multiple of 10, before that tick's scheduling step: every scheduling step
\* works on the catalog as it was at the last such tick, and no job exists
\* for a rule that was not in the catalog then.
C9_RefreshEveryTenth ==
    \A i \in Inst :
        /\ refreshed[i] = {t \in Received(i) : t % 10 = 0}
        /\ tpc[i] \in {"decide", "push"} => schedRules[i] = snapshot[i]
        /\ (lastTick[i].ended /\ lastTick[i].scheduled) =>
              lastTick[i].rules = snapshot[i]
        /\ \A r \in Rules : spc[<<i, r>>] # "idle" => r \in snapshot[i]

\* r2 was added after tick 0: tick 9 scheduled without it, tick 10 with it
C9_Witness ==
    /\ refreshed["A"] = {0, 10}
    /\ lastTick["A"].index = 10 /\ lastTick["A"].ended
    /\ lastTick["A"].scheduled /\ lastTick["A"].rules = {"r1", "r2"}
    /\ lastTick["A"].prev.scheduled /\ lastTick["A"].prev.rules = {"r1"}
    /\ spc[<<"A", "r2">>] = "queued"

====
